---- MODULE Spec2Model ----
(***************************************************************************)
(* A model of rofi_calendar.py: the settings cache, the paginated fetch,   *)
(* the aggregation and sort done by main, format_event_line and the        *)
(* selection decoder.                                                      *)
(*                                                                         *)
(* Text is a sequence of one-character strings.  A character outside       *)
(* ASCII is written by its code point ("U+00F0").  Times are whole         *)
(* minutes; dates are days of one month (June 2024), so a date's ordinal   *)
(* is its day of the month.                                                *)
(***************************************************************************)
EXTENDS Integers, Sequences, FiniteSets, TLC

VARIABLES
    pc,            \* where main is: "start", "loop", "list", "done", "aborted"
    selection,     \* the SELECTION argument of main: None or text
    settingsFile,  \* the "settings" mapping of settings.yml
    options,       \* the --start and --end values main is given
    today,         \* the local date of datetime.now(tz_info), a day of the month
    nowMin,        \* the local time of day of datetime.now(tz_info), in minutes
    cache,         \* the cache of @cached on settings(): key -> value
    calls,         \* the overrides of each settings() call so far
    returns,       \* the value each settings() call returned
    lru,           \* the caches of @lru_cache on start_date() and end_date()
    calIdx,        \* main's position in config["calendar_id"]
    stack,         \* the active fetch_events invocations, outermost first
    requests,      \* every events().list() call issued, in order
    served,        \* every page the service answered, in order
    returned,      \* what each top-level fetch_events call returned to main
    all_events,    \* main's all_events list
    printed,       \* the lines main printed
    opened         \* the URLs handed to webbrowser.open

vars == <<pc, selection, settingsFile, options, today, nowMin, cache, calls,
          returns, lru, calIdx, stack, requests, served, returned, all_events,
          printed, opened>>

None == "None"

(***************************************************************************)
(* Bounds of the model.                                                    *)
(***************************************************************************)
MaxCalls == 3
MaxCursors == 2
MaxEvents == 2
MaxCalendars == 2
MaxSortEvents == 3

(***************************************************************************)
(* Characters and text.                                                    *)
(***************************************************************************)
Digits == <<"0", "1", "2", "3", "4", "5", "6", "7", "8", "9">>

Letters == {"a", "b", "c", "d", "e", "f", "g", "h", "i", "j", "k", "l", "m",
            "n", "o", "p", "q", "r", "s", "t", "u", "v", "w", "x", "y", "z",
            "A", "B", "C", "D", "E", "F", "G", "H", "I", "J", "K", "L", "M",
            "N", "O", "P", "Q", "R", "S", "T", "U", "V", "W", "X", "Y", "Z"}

DigitChars == {Digits[i] : i \in 1..10}

\* \w of a str pattern: alphanumeric in Unicode, or the underscore
IsWordChar(c) == c \in Letters \cup DigitChars \cup {"_", "U+00F0", "U+0178", "U+00B9"}

\* the code point of the characters a sort key is made of
Ord(c) ==
    CASE c = "+" -> 43
      [] c = "-" -> 45
      [] c \in DigitChars -> 47 + (CHOOSE i \in 1..10 : Digits[i] = c)
      [] c = ":" -> 58
      [] c = "T" -> 84

Min(a, b) == IF a < b THEN a ELSE b
Max(a, b) == IF a > b THEN a ELSE b

Spaces(n) == [i \in 1..n |-> " "]

RECURSIVE Concat(_)
Concat(ss) == IF ss = <<>> THEN <<>> ELSE Head(ss) \o Concat(Tail(ss))

\* s < t for str: by code point, a proper prefix first
RECURSIVE StrLess(_, _)
StrLess(s, t) ==
    IF t = <<>> THEN FALSE
    ELSE IF s = <<>> THEN TRUE
    ELSE IF Head(s) = Head(t) THEN StrLess(Tail(s), Tail(t))
    ELSE Ord(Head(s)) < Ord(Head(t))

(***************************************************************************)
(* settings(): the @cached wrapper and the function body.                  *)
(***************************************************************************)
TimezoneNames == {"UTC", "Asia/Tokyo", "America/Sao_Paulo", "Europe/Berlin"}

CalendarIds == {"work", "home"}

RECURSIVE SeqsUpTo(_, _)
SeqsUpTo(S, n) ==
    IF n = 0 THEN {<<>>}
    ELSE LET shorter == SeqsUpTo(S, n - 1)
         IN  shorter \cup {Append(q, x) : q \in shorter, x \in S}

NoOverrides == [k \in {} |-> None]

\* the keyword arguments a call of settings() may carry
OverrideSets ==
    {NoOverrides} \cup
    {[start_date |-> a, end_date |-> b] :
        a \in {None, "2024-06-10T09:00:00", "2024-06-12"}, b \in {None, "2024-06-12"}}

\* the keyword arguments main passes: --start and --end always have a value
MainOverrides == [start_date |-> "2024-06-10T09:00:00", end_date |-> "2024-06-12"]

\* the --start and --end values the runs are tried with: a date-time and a
\* date, or an empty --start
MainOptions == {MainOverrides, [start_date |-> "", end_date |-> "2024-06-12"]}

\* a variant: the default key of @cached, made of the arguments
CacheKeyByArgs(overrides) == overrides

\* key=lambda **_: hashkey(None): the key of a call does not read its arguments
CacheKey(overrides) == "hashkey(None)"

\* the body of settings(): the file's mapping with the non-null overrides set
LoadSettings(file, overrides) ==
    [k \in DOMAIN file \cup {o \in DOMAIN overrides : overrides[o] # None} |->
        IF k \in DOMAIN overrides /\ overrides[k] # None
        THEN overrides[k] ELSE file[k]]

\* a call of settings(**overrides) against cache c: the value and the new cache
Settings(c, file, overrides) ==
    LET key == CacheKey(overrides)
    IN  IF key \in DOMAIN c
        THEN [value |-> c[key], cache |-> c]
        ELSE LET v == LoadSettings(file, overrides)
             IN  [value |-> v, cache |-> (key :> v) @@ c]

NoCache == [k \in {} |-> None]

\* the characters of the date texts the settings are tried with
Chars(text) ==
    CASE text = "" -> <<>>
      [] text = "2024-06-11" ->
            <<"2", "0", "2", "4", "-", "0", "6", "-", "1", "1">>
      [] text = "2024-06-12" ->
            <<"2", "0", "2", "4", "-", "0", "6", "-", "1", "2">>
      [] text = "2024-06-10T09:00:00" ->
            <<"2", "0", "2", "4", "-", "0", "6", "-", "1", "0", "T",
              "0", "9", ":", "0", "0", ":", "0", "0">>

\* the settings.yml contents the settings() calls are tried on
SettingsStores ==
    {[timezone |-> "UTC", calendar_id |-> <<"work">>],
     [timezone |-> "Europe/Berlin", calendar_id |-> <<"work", "home">>],
     [timezone |-> "UTC", calendar_id |-> <<"home">>, start_date |-> "2024-06-11"]}

(***************************************************************************)
(* SpecSettings: any sequence of settings() calls in one process, while    *)
(* settings.yml may be rewritten between them.                             *)
(***************************************************************************)
mainVars == <<selection, options, today, nowMin, lru, calIdx, stack, requests,
              served, returned, all_events, printed, opened>>

InitSettings ==
    /\ pc = "settings"
    /\ selection = None
    /\ settingsFile \in SettingsStores
    /\ options = MainOverrides
    /\ today = 12
    /\ nowMin = 9 * 60 + 30
    /\ cache = NoCache
    /\ calls = <<>>
    /\ returns = <<>>
    /\ lru = NoCache
    /\ calIdx = 0
    /\ stack = <<>>
    /\ requests = <<>>
    /\ served = <<>>
    /\ returned = <<>>
    /\ all_events = <<>>
    /\ printed = <<>>
    /\ opened = <<>>

SettingsCall(overrides) ==
    /\ pc = "settings"
    /\ Len(calls) < MaxCalls
    /\ LET r == Settings(cache, settingsFile, overrides)
       IN  /\ cache' = r.cache
           /\ returns' = Append(returns, r.value)
    /\ calls' = Append(calls, [overrides |-> overrides, file |-> settingsFile])
    /\ UNCHANGED <<pc, settingsFile, mainVars>>

\* the environment rewrites settings.yml
EditSettingsFile ==
    /\ pc = "settings"
    /\ calls # <<>>
    /\ Len(calls) < MaxCalls
    /\ settingsFile' \in SettingsStores \ {settingsFile}
    /\ UNCHANGED <<pc, cache, calls, returns, mainVars>>

NextSettings ==
    \/ \E overrides \in OverrideSets : SettingsCall(overrides)
    \/ EditSettingsFile

SpecSettings == InitSettings /\ [][NextSettings]_vars

\* C1: every settings() call after the first returns the value the first call
\* produced, whatever overrides it passes and whatever settings.yml holds by
\* then; that value is the file as the first call read it with exactly the
\* non-null overrides of the first call merged in.
C1_SettingsFrozen ==
    /\ \A i \in 1..Len(returns) : returns[i] = returns[1]
    /\ returns # <<>> =>
         LET first == calls[1].overrides
             file == calls[1].file
             value == returns[1]
         IN  \A k \in {"timezone", "calendar_id", "start_date", "end_date"} :
                IF k \in DOMAIN first /\ first[k] # None
                THEN k \in DOMAIN value /\ value[k] = first[k]
                ELSE IF k \in DOMAIN file
                THEN k \in DOMAIN value /\ value[k] = file[k]
                ELSE k \notin DOMAIN value

\* three calls: the first with one null and one non-null override, the later
\* ones with other overrides and after settings.yml was rewritten
C1_Witness ==
    /\ Len(calls) = 3
    /\ calls[1].overrides = [start_date |-> None, end_date |-> "2024-06-12"]
    /\ calls[2].overrides = NoOverrides
    /\ calls[3].overrides = [start_date |-> "2024-06-12", end_date |-> None]
    /\ calls[3].file # calls[1].file
    /\ "start_date" \in DOMAIN calls[1].file
    /\ returns[3] = returns[1]

(***************************************************************************)
(* Dates and times as the service sends them and as datetime reads them.   *)
(***************************************************************************)
MinutesPerDay == 24 * 60

Digits2(n) == <<Digits[(n \div 10) + 1], Digits[(n % 10) + 1]>>

DigitVal(c) == (CHOOSE i \in 1..10 : Digits[i] = c) - 1

\* the number written by the n digits of s from position i on
RECURSIVE Num(_, _, _)
Num(s, i, n) == IF n = 0 THEN 0 ELSE 10 * Num(s, i, n - 1) + DigitVal(s[i + n - 1])

Abs(n) == IF n < 0 THEN -n ELSE n

\* "2024-06-DD", the form of start.date and end.date
IsoDate(day) == <<"2", "0", "2", "4", "-", "0", "6", "-">> \o Digits2(day)

\* "2024-06-DDTHH:MM:00+HH:MM", the form of start.dateTime and end.dateTime
IsoDateTime(day, min, off) ==
    IsoDate(day) \o <<"T">> \o Digits2(min \div 60) \o <<":">> \o Digits2(min % 60)
        \o <<":", "0", "0">> \o <<IF off < 0 THEN "-" ELSE "+">>
        \o Digits2(Abs(off) \div 60) \o <<":">> \o Digits2(Abs(off) % 60)

\* datetime.fromisoformat: a date alone is a naive midnight (off = None), a
\* date-time without an offset is naive, a date-time with one carries it
FromIsoFormat(s) ==
    IF Len(s) = 10
    THEN [year |-> Num(s, 1, 4), month |-> Num(s, 6, 2), day |-> Num(s, 9, 2),
          min |-> 0, off |-> None]
    ELSE IF Len(s) = 19
    THEN [year |-> Num(s, 1, 4), month |-> Num(s, 6, 2), day |-> Num(s, 9, 2),
          min |-> 60 * Num(s, 12, 2) + Num(s, 15, 2), off |-> None]
    ELSE [year |-> Num(s, 1, 4), month |-> Num(s, 6, 2), day |-> Num(s, 9, 2),
          min |-> 60 * Num(s, 12, 2) + Num(s, 15, 2),
          off |-> (IF s[20] = "-" THEN -1 ELSE 1)
                     * (60 * Num(s, 21, 2) + Num(s, 24, 2))]

\* pytz.timezone(name): lmt is the offset of the zone object itself (its
\* first, local-mean-time entry, to the minute), off the offset in force in
\* June 2024, in minutes east of UTC
TzInfo(name) ==
    CASE name = "UTC" -> [lmt |-> 0, off |-> 0]
      [] name = "Asia/Tokyo" -> [lmt |-> 559, off |-> 540]
      [] name = "America/Sao_Paulo" -> [lmt |-> -186, off |-> -180]
      [] name = "Europe/Berlin" -> [lmt |-> 53, off |-> 120]

\* minutes since the start of the month, in UTC, of an aware datetime
UtcMinutes(dt) == dt.day * MinutesPerDay + dt.min - dt.off

\* dt.astimezone(tz_info) of an aware datetime
AsTimezone(dt, tz) ==
    LET local == UtcMinutes(dt) + tz.off
    IN  [dt EXCEPT !.day = local \div MinutesPerDay,
                   !.min = local % MinutesPerDay,
                   !.off = tz.off]

\* dt.replace(tzinfo=tz_info): the wall time is kept and the zone object
\* itself is attached, whose offset is its local mean time
ReplaceTzinfo(dt, tz) == [dt EXCEPT !.off = tz.lmt]

\* datetime.now(tz_info).replace(hour=23, minute=59, second=59,
\* microsecond=999999) on local date d.  On the whole-minute grid of the
\* model 23:59 stands for 23:59:59.999999: the whole days of a difference
\* to a whole-minute instant are the same.
EndOfToday(d, tz) ==
    [year |-> 2024, month |-> 6, day |-> d, min |-> MinutesPerDay - 1, off |-> tz.off]

\* (a - b).days of two aware datetimes: the floor of the difference in days
DaysBetween(a, b) == (UtcMinutes(a) - UtcMinutes(b)) \div MinutesPerDay

\* strftime("%Y-%m-%d") and strftime("%H:%M")
Digits4(n) == Digits2(n \div 100) \o Digits2(n % 100)
StrfDate(dt) == Digits4(dt.year) \o <<"-">> \o Digits2(dt.month) \o <<"-">> \o Digits2(dt.day)
StrfTime(dt) == Digits2(dt.min \div 60) \o <<":">> \o Digits2(dt.min % 60)

\* tz_info.localize(dt) of a naive datetime: the wall time is kept and the
\* offset in force at that time is attached
Localize(dt, tz) == [dt EXCEPT !.off = tz.off]

\* datetime.now(tz_info) on local date d at minute m of the day
Now(d, m, tz) == [year |-> 2024, month |-> 6, day |-> d, min |-> m, off |-> tz.off]

\* dt.isoformat() of an aware datetime on the whole-minute grid
IsoFormat(dt) ==
    StrfDate(dt) \o <<"T">> \o StrfTime(dt) \o <<":", "0", "0">>
        \o <<IF dt.off < 0 THEN "-" ELSE "+">>
        \o Digits2(Abs(dt.off) \div 60) \o <<":">> \o Digits2(Abs(dt.off) % 60)

(***************************************************************************)
(* start_date() and end_date(): the time range of the list calls.          *)
(***************************************************************************)
\* the body of start_date(): the configured start in the configured
\* timezone, or the current time when none is configured
StartDate(config, d, m) ==
    LET tz == TzInfo(config["timezone"])
    IN  IsoFormat(IF "start_date" \in DOMAIN config /\ config["start_date"] # ""
                  THEN Localize(FromIsoFormat(Chars(config["start_date"])), tz)
                  ELSE Now(d, m, tz))

\* the body of end_date(): the same for the configured end
EndDate(config, d, m) ==
    LET tz == TzInfo(config["timezone"])
    IN  IsoFormat(IF "end_date" \in DOMAIN config /\ config["end_date"] # ""
                  THEN Localize(FromIsoFormat(Chars(config["end_date"])), tz)
                  ELSE Now(d, m, tz))

\* the state a call passes through: the two caches and the settings() calls
\* logged so far
Memo(l, c, cs, rs) == [lru |-> l, cache |-> c, calls |-> cs, returns |-> rs]

\* a call of start_date() (name "start_date") or end_date() (name "end_date")
\* in state st: a cached value, or config = settings() and the body; the
\* value and the state after
DateCall(name, st, file, d, m) ==
    IF name \in DOMAIN st.lru
    THEN [value |-> st.lru[name], st |-> st]
    ELSE LET r == Settings(st.cache, file, NoOverrides)
             v == IF name = "start_date" THEN StartDate(r.value, d, m)
                  ELSE EndDate(r.value, d, m)
         IN  [value |-> v,
              st |-> Memo((name :> v) @@ st.lru, r.cache,
                          Append(st.calls, [overrides |-> NoOverrides, file |-> file]),
                          Append(st.returns, r.value))]

\* timeMin=start_date(), timeMax=end_date(): the arguments of a list call,
\* evaluated in this order, and the state after
TimeRange(st, file, d, m) ==
    LET a == DateCall("start_date", st, file, d, m)
        b == DateCall("end_date", a.st, file, d, m)
    IN  [timeMin |-> a.value, timeMax |-> b.value, st |-> b.st]

(***************************************************************************)
(* format_event_line                                                       *)
(***************************************************************************)
DayWidth == 12
TimeWidth == 16
SummaryWidth == 46
ConferenceWidth == 12

\* "{:<w}" and "{:w}" of a str: padded on the right to w, never cut
PadRight(s, w) == s \o Spaces(Max(0, w - Len(s)))

\* the precision of "{:46.46}": cut to p characters
Truncate(s, p) == SubSeq(s, 1, Min(Len(s), p))

TextToday == <<"T", "o", "d", "a", "y">>
TextTomorrow == <<"T", "o", "m", "o", "r", "r", "o", "w">>
TextAllDay == <<"A", "l", "l", " ", "d", "a", "y">>
ConferenceMarker == <<"U+00F0", "U+0178", "U+201C", "U+00B9", " ">>

\* event["conferenceData"]["conferenceId"] if "conferenceData" in event else ""
EventConference(event) ==
    IF "conferenceData" \in DOMAIN event THEN event.conferenceData.conferenceId ELSE <<>>

IsTimed(event) == "dateTime" \in DOMAIN event.start /\ "dateTime" \in DOMAIN event.end

EventStart(event, tz) ==
    IF IsTimed(event)
    THEN AsTimezone(FromIsoFormat(event.start.dateTime), tz)
    ELSE ReplaceTzinfo(FromIsoFormat(event.start.date), tz)

EventEnd(event, tz) ==
    IF IsTimed(event)
    THEN AsTimezone(FromIsoFormat(event.end.dateTime), tz)
    ELSE ReplaceTzinfo(FromIsoFormat(event.end.date), tz)

\* the day label of an event starting at event_start, read on local date d
DayLabel(event_start, d, tz) ==
    LET days == DaysBetween(EndOfToday(d, tz), event_start)
    IN  IF days = 0 THEN TextToday
        ELSE IF days = -1 THEN TextTomorrow
        ELSE StrfDate(event_start)

TimeLabel(event_start, event_end) ==
    IF event_start.min = 0 /\ event_end.min = 0
    THEN TextAllDay
    ELSE StrfTime(event_start) \o <<" ", "-", " ">> \o StrfTime(event_end)

\* a variant: the layout without its last column
LayoutNoConference(day, event_time, summary, conference) ==
    PadRight(day, DayWidth) \o <<" ">> \o PadRight(event_time, TimeWidth) \o <<" ">>
        \o (IF conference # <<>> THEN ConferenceMarker ELSE <<>>)
        \o PadRight(Truncate(summary, SummaryWidth), SummaryWidth)

\* "{:<12} {:16} {}{:46.46} {:<12}".format(day, event_time, marker, summary, conference)
Layout(day, event_time, summary, conference) ==
    PadRight(day, DayWidth) \o <<" ">> \o PadRight(event_time, TimeWidth) \o <<" ">>
        \o (IF conference # <<>> THEN ConferenceMarker ELSE <<>>)
        \o PadRight(Truncate(summary, SummaryWidth), SummaryWidth) \o <<" ">>
        \o PadRight(conference, ConferenceWidth)

\* format_event_line(event) under configuration config on local date d
FormatEventLine(event, config, d) ==
    LET tz == TzInfo(config["timezone"])
        event_start == EventStart(event, tz)
        event_end == EventEnd(event, tz)
    IN  Layout(DayLabel(event_start, d, tz), TimeLabel(event_start, event_end),
               event.summary, EventConference(event))

(***************************************************************************)
(* The selection decoder of main: search(".*(\w{3}-\w{4}-\w{3})$", s).     *)
(***************************************************************************)
\* (\w{3}-\w{4}-\w{3}) matches the 12 characters of s after the first p
GroupAt(s, p) ==
    /\ p + 12 <= Len(s)
    /\ \A i \in 1..12 : IF i \in {4, 9} THEN s[p + i] = "-" ELSE IsWordChar(s[p + i])

\* a variant: the pattern without its $
NoAnchor(s, p) == TRUE

\* $ after the first p characters of s: at the end, or before a last newline
EndAnchor(s, p) == p = Len(s) \/ (p = Len(s) - 1 /\ s[Len(s)] = "\n")

\* .* takes the n characters of s after the first p: none is a newline
DotStar(s, p, n) == \A i \in 1..n : s[p + i] # "\n"

\* where the group can stand: after the first p characters, $ behind it
GroupStarts(s) == {p \in 0..Len(s) : GroupAt(s, p) /\ EndAnchor(s, p + 12)}

\* the matches of the pattern in s: <<i, n>> starts after i characters and
\* gives n characters to .*
Matches(s) ==
    UNION {{<<i, p - i>> : i \in {i \in 0..p : DotStar(s, i, p - i)}} : p \in GroupStarts(s)}

\* search(): the leftmost match, .* taking as much as it can; group(1)
SearchGroup(s) ==
    LET ms == Matches(s)
        first == CHOOSE m \in ms : \A o \in ms : m[1] < o[1] \/ (m[1] = o[1] /\ m[2] >= o[2])
    IN  SubSeq(s, first[1] + first[2] + 1, first[1] + first[2] + 12)

MeetPrefix == <<"h", "t", "t", "p", "s", ":", "/", "/", "m", "e", "e", "t", ".", "g", "o", "o", "g", "l", "e", ".", "c", "o", "m", "/">>

\* the URLs main opens for a selection text, in order
SelectionAction(s) ==
    IF Matches(s) # {} THEN <<MeetPrefix \o SearchGroup(s)>> ELSE <<>>

(***************************************************************************)
(* main: the sort of the aggregated events.                                *)
(***************************************************************************)
\* key=lambda ev: ev["start"]["dateTime"] if "dateTime" in ev["start"]
\*                else ev["start"]["date"]
SortKey(ev) ==
    IF "dateTime" \in DOMAIN ev.start THEN ev.start.dateTime ELSE ev.start.date

\* a variant: an insertion before the elements of equal key
InsertBeforeEqual(sorted, ev) ==
    LET k == Cardinality({i \in 1..Len(sorted) : StrLess(SortKey(sorted[i]), SortKey(ev))})
    IN  SubSeq(sorted, 1, k) \o <<ev>> \o SubSeq(sorted, k + 1, Len(sorted))

\* list.sort is stable: an element goes after every element already placed
\* whose key is not greater than its own
InsertSorted(sorted, ev) ==
    LET k == Cardinality({i \in 1..Len(sorted) : ~StrLess(SortKey(ev), SortKey(sorted[i]))})
    IN  SubSeq(sorted, 1, k) \o <<ev>> \o SubSeq(sorted, k + 1, Len(sorted))

RECURSIVE SortEvents(_)
SortEvents(evs) ==
    IF evs = <<>> THEN <<>>
    ELSE InsertSorted(SortEvents(SubSeq(evs, 1, Len(evs) - 1)), evs[Len(evs)])

(***************************************************************************)
(* The events and the selections the runs are tried on.                    *)
(***************************************************************************)
CodeAbc == <<"a", "b", "c", "-", "d", "e", "f", "g", "-", "h", "i", "j">>

TimedEvent(summary, day, min, off, len) ==
    [summary |-> summary,
     start |-> [dateTime |-> IsoDateTime(day, min, off)],
     end |-> [dateTime |-> IsoDateTime(day, min + len, off)]]

AllDayEvent(summary, day) ==
    [summary |-> summary, start |-> [date |-> IsoDate(day)], end |-> [date |-> IsoDate(day + 1)]]

WithConference(event, id) ==
    [k \in DOMAIN event \cup {"conferenceData"} |->
        IF k = "conferenceData" THEN [conferenceId |-> id] ELSE event[k]]

\* what the service may list: a meeting at 10:00+02:00 with a conference, one
\* at 09:00+00:00 (an hour later, its text smaller), an all-day event of the
\* same date, and a second meeting with the start text of the first
EventPool ==
    {WithConference(TimedEvent(<<"S", "t", "a", "n", "d", "u", "p">>, 12, 600, 120, 30), CodeAbc),
     TimedEvent(<<"R", "e", "v", "i", "e", "w">>, 12, 540, 0, 60),
     AllDayEvent(<<"H", "o", "l", "i", "d", "a", "y">>, 12),
     TimedEvent(<<"S", "y", "n", "c">>, 12, 600, 120, 60)}

\* what a service that paginates lists: the first two of them
PagedPool ==
    {WithConference(TimedEvent(<<"S", "t", "a", "n", "d", "u", "p">>, 12, 600, 120, 30), CodeAbc),
     TimedEvent(<<"R", "e", "v", "i", "e", "w">>, 12, 540, 0, 60)}

\* the cursor the service gives with the k-th page of a listing
PageToken(k) ==
    <<"cursor-1", "cursor-2", "cursor-3", "cursor-4", "cursor-5", "cursor-6",
      "cursor-7", "cursor-8">>[k]

\* config["calendar_id"]: any list, up to the names of the calendars
CalendarLists ==
    {ids \in SeqsUpTo(CalendarIds, MaxCalendars) : ids # <<>> => ids[1] = "work"}

NoSelection == [given |-> FALSE]
Selected(text) == [given |-> TRUE, text |-> text]

SelectionAlphabet == {"a", "_", "7", "-", " ", "\n"}

\* the code with one character replaced, after a prefix and before a suffix:
\* every way one position can break the pattern, and what may follow it
SelectionTexts ==
    {<<>>, <<"a">>, <<"\n">>, <<"-">>}
    \cup {pre \o [CodeAbc EXCEPT ![i] = c] \o post :
            pre \in {<<>>, <<"x">>, <<" ">>, <<"\n">>, <<"x", "-">>},
            i \in 1..12, c \in SelectionAlphabet,
            post \in {<<>>, <<"\n">>, <<" ">>, <<"\n", "\n">>, <<"a">>}}

(***************************************************************************)
(* main and fetch_events.                                                  *)
(***************************************************************************)
\* a variant: a return only inside "if matches is not None"
IsSelectionModeIfMatched(sel) == sel.given /\ sel.text # <<>> /\ Matches(sel.text) # {}

\* selection is not None and selection != ""
IsSelectionMode(sel) == sel.given /\ sel.text # <<>>

Config == cache[CacheKey(NoOverrides)]

NewFrame(page_token) == [page_token |-> page_token, items |-> <<>>, phase |-> "call", ret |-> <<>>]

Top == stack[Len(stack)]

\* a variant: the operands of + exchanged
JoinPagesSwapped(items, rest) == rest \o items

\* events_result.get("items", []) + fetch_events(service, calendar_id, next_page)
JoinPages(items, rest) == items \o rest

\* a variant: a loop that keeps one invocation and collects the items in it
NextPageInPlace(stk, items, next_page) ==
    [stk EXCEPT ![Len(stk)] = [NewFrame(next_page) EXCEPT !.items = stk[Len(stk)].items \o items]]

\* a page came with a cursor: the invocation keeps its items and calls
\* fetch_events again with the cursor
NextPage(stk, items, next_page) ==
    Append([stk EXCEPT ![Len(stk)] = [@ EXCEPT !.items = items, !.phase = "wait"]],
           NewFrame(next_page))

\* a variant: an except clause that takes the failed page for an empty last page
SwallowListError(stk) ==
    [pc |-> "fetch", stack |-> [stk EXCEPT ![Len(stk)] = [@ EXCEPT !.phase = "ret", !.ret = <<>>]]]

\* .execute() raised: nothing catches it, every invocation and main unwind
RaiseListError(stk) == [pc |-> "aborted", stack |-> <<>>]

CursorsServed == Cardinality({i \in 1..Len(served) : served[i].nextPageToken # None})

EventsServed == Len(Concat([i \in 1..Len(served) |-> served[i].items]))

Init ==
    /\ pc = "start"
    /\ selection \in {NoSelection} \cup {Selected(t) : t \in SelectionTexts}
    /\ settingsFile \in {[timezone |-> "UTC", calendar_id |-> ids] : ids \in CalendarLists}
    /\ IsSelectionMode(selection) => settingsFile.calendar_id = <<"work">>
    /\ options \in MainOptions
    /\ options # MainOverrides =>
          ~IsSelectionMode(selection) /\ settingsFile.calendar_id = <<"work">>
    /\ today = 12
    /\ nowMin = 9 * 60 + 30
    /\ cache = NoCache
    /\ calls = <<>>
    /\ returns = <<>>
    /\ lru = NoCache
    /\ calIdx = 0
    /\ stack = <<>>
    /\ requests = <<>>
    /\ served = <<>>
    /\ returned = <<>>
    /\ all_events = <<>>
    /\ printed = <<>>
    /\ opened = <<>>

\* main with a selection: decode it, open the meeting, return
MainSelection ==
    /\ pc = "start"
    /\ IsSelectionMode(selection)
    /\ opened' = opened \o SelectionAction(selection.text)
    /\ pc' = "done"
    /\ UNCHANGED <<selection, settingsFile, options, today, nowMin, cache, calls,
                   returns, lru, calIdx, stack, requests, served, returned,
                   all_events, printed>>

\* main without one: settings(start_date=start, end_date=end), the service,
\* all_events = []
MainStart ==
    /\ pc = "start"
    /\ ~IsSelectionMode(selection)
    /\ LET r == Settings(cache, settingsFile, options)
       IN  /\ cache' = r.cache
           /\ returns' = Append(returns, r.value)
    /\ calls' = Append(calls, [overrides |-> options, file |-> settingsFile])
    /\ calIdx' = 1
    /\ all_events' = <<>>
    /\ pc' = "loop"
    /\ UNCHANGED <<selection, settingsFile, options, today, nowMin, lru, stack,
                   requests, served, returned, printed, opened>>

\* for calendar_id in config["calendar_id"]: events = fetch_events(service, calendar_id)
MainCallFetch ==
    /\ pc = "loop"
    /\ calIdx <= Len(Config["calendar_id"])
    /\ stack' = <<NewFrame(None)>>
    /\ pc' = "fetch"
    /\ UNCHANGED <<selection, settingsFile, options, today, nowMin, cache, calls,
                   returns, lru, calIdx, requests, served, returned, all_events,
                   printed, opened>>

\* fetch_events: start_date() and end_date() give the time range, the list
\* call is answered with a page of items and, unless it is the last page, a
\* cursor
ListOk(items, more, limit) ==
    /\ pc = "fetch"
    /\ Top.phase = "call"
    /\ EventsServed + Len(items) <= limit
    /\ more => CursorsServed < MaxCursors
    /\ LET next_page == IF more THEN PageToken(CursorsServed + 1) ELSE None
           range == TimeRange(Memo(lru, cache, calls, returns), settingsFile, today, nowMin)
       IN
       /\ lru' = range.st.lru
       /\ cache' = range.st.cache
       /\ calls' = range.st.calls
       /\ returns' = range.st.returns
       /\ requests' = Append(requests, [calendarId |-> Config["calendar_id"][calIdx],
                                        timeMin |-> range.timeMin,
                                        timeMax |-> range.timeMax,
                                        pageToken |-> Top.page_token, ok |-> TRUE])
       /\ served' = Append(served, [calendarId |-> Config["calendar_id"][calIdx],
                                    pageToken |-> Top.page_token,
                                    items |-> items, nextPageToken |-> next_page])
       /\ stack' = IF next_page # None
                   THEN NextPage(stack, items, next_page)
                   ELSE [stack EXCEPT ![Len(stack)] = [@ EXCEPT !.phase = "ret", !.ret = items]]
    /\ UNCHANGED <<pc, selection, settingsFile, options, today, nowMin, calIdx,
                   returned, all_events, printed, opened>>

\* fetch_events: start_date() and end_date() give the time range, the list
\* call fails
ListFail ==
    /\ pc = "fetch"
    /\ Top.phase = "call"
    /\ LET range == TimeRange(Memo(lru, cache, calls, returns), settingsFile, today, nowMin)
       IN
       /\ lru' = range.st.lru
       /\ cache' = range.st.cache
       /\ calls' = range.st.calls
       /\ returns' = range.st.returns
       /\ requests' = Append(requests, [calendarId |-> Config["calendar_id"][calIdx],
                                        timeMin |-> range.timeMin,
                                        timeMax |-> range.timeMax,
                                        pageToken |-> Top.page_token, ok |-> FALSE])
    /\ LET r == RaiseListError(stack)
       IN  /\ pc' = r.pc
           /\ stack' = r.stack
    /\ UNCHANGED <<selection, settingsFile, options, today, nowMin, calIdx, served,
                   returned, all_events, printed, opened>>

\* an inner fetch_events returns to the invocation that called it
FetchReturn ==
    /\ pc = "fetch"
    /\ Len(stack) > 1
    /\ Top.phase = "ret"
    /\ stack' = SubSeq(stack, 1, Len(stack) - 2) \o
                 <<[stack[Len(stack) - 1] EXCEPT
                      !.phase = "ret",
                      !.ret = JoinPages(stack[Len(stack) - 1].items, Top.ret)]>>
    /\ UNCHANGED <<pc, selection, settingsFile, options, today, nowMin, cache, calls,
                   returns, lru, calIdx, requests, served, returned, all_events,
                   printed, opened>>

\* the outermost fetch_events returns to main: if not events: continue;
\* for event in events: all_events.append(event)
MainReceive ==
    /\ pc = "fetch"
    /\ Len(stack) = 1
    /\ Top.phase = "ret"
    /\ returned' = Append(returned, [calendarId |-> Config["calendar_id"][calIdx],
                                     events |-> Top.ret])
    /\ all_events' = IF Top.ret = <<>> THEN all_events ELSE all_events \o Top.ret
    /\ stack' = <<>>
    /\ calIdx' = calIdx + 1
    /\ pc' = "loop"
    /\ UNCHANGED <<selection, settingsFile, options, today, nowMin, cache, calls,
                   returns, lru, requests, served, printed, opened>>

\* all_events.sort(key=...); for ev in all_events: print(format_event_line(ev)),
\* where each format_event_line begins with config = settings()
MainSortPrint ==
    /\ pc = "loop"
    /\ calIdx > Len(Config["calendar_id"])
    /\ all_events' = SortEvents(all_events)
    /\ LET r == Settings(cache, settingsFile, NoOverrides)
           n == Len(all_events)
       IN  /\ cache' = IF n = 0 THEN cache ELSE r.cache
           /\ calls' = calls \o [i \in 1..n |-> [overrides |-> NoOverrides,
                                                  file |-> settingsFile]]
           /\ returns' = returns \o [i \in 1..n |-> r.value]
           /\ printed' = [i \in 1..n |->
                             FormatEventLine(SortEvents(all_events)[i], r.value, today)]
    /\ pc' = "done"
    /\ UNCHANGED <<selection, settingsFile, options, today, nowMin, lru, calIdx,
                   stack, requests, served, returned, opened>>

Next ==
    \/ MainSelection
    \/ MainStart
    \/ MainCallFetch
    \/ \E items \in SeqsUpTo(PagedPool, MaxEvents), more \in BOOLEAN :
          ListOk(items, more, MaxEvents)
    \/ ListFail
    \/ FetchReturn
    \/ MainReceive
    \/ MainSortPrint

Spec == Init /\ [][Next]_vars

(***************************************************************************)
(* SpecSort: the runs of main without a selection against a service that   *)
(* answers every listing in one page, over the whole event pool.           *)
(***************************************************************************)
InitSort == Init /\ ~IsSelectionMode(selection)

NextSort ==
    \/ MainStart
    \/ MainCallFetch
    \/ \E items \in SeqsUpTo(EventPool, MaxSortEvents) : ListOk(items, FALSE, MaxSortEvents)
    \/ MainReceive
    \/ MainSortPrint

SpecSort == InitSort /\ [][NextSort]_vars

(***************************************************************************)
(* Properties of the runs of main (Spec).                                  *)
(***************************************************************************)
\* the listings begun so far: the positions in served of their first pages
Starts == {i \in 1..Len(served) : served[i].pageToken = None}

\* the pages of the k-th listing, in the order served
Chain(k) ==
    LET idx == {i \in 1..Len(served) : Cardinality({j \in Starts : j <= i}) = k}
        first == CHOOSE i \in idx : \A j \in idx : i <= j
    IN  [n \in 1..Cardinality(idx) |-> served[first + n - 1]]

ChainItems(chain) == Concat([n \in 1..Len(chain) |-> chain[n].items])

\* C2: fetch_events requests each page of a calendar once, in chain order,
\* with the cursor the page before returned, stops at the first page without
\* a cursor, and returns the pages' items concatenated in page-then-item order.
C2_PaginationConcatenates ==
    /\ Len(served) <= Len(requests)
    /\ Len(requests) <= Len(served) + 1
    /\ \A i \in 1..Len(served) :
          /\ requests[i].ok
          /\ requests[i].pageToken = served[i].pageToken
          /\ requests[i].calendarId = served[i].calendarId
          /\ i < Len(requests) =>
                IF served[i].nextPageToken # None
                THEN /\ requests[i + 1].pageToken = served[i].nextPageToken
                     /\ requests[i + 1].calendarId = served[i].calendarId
                ELSE requests[i + 1].pageToken = None
    /\ \A k \in 1..Len(returned) :
          LET chain == Chain(k)
          IN  /\ chain[Len(chain)].nextPageToken = None
              /\ \A n \in 1..Len(chain) : chain[n].calendarId = returned[k].calendarId
              /\ returned[k].events = ChainItems(chain)

\* a listing of three pages, the first and the last with one event each, returned
C2_Witness ==
    /\ returned # <<>>
    /\ LET chain == Chain(1)
       IN  /\ Len(chain) = 3
           /\ Len(chain[1].items) = 1
           /\ chain[2].items = <<>>
           /\ Len(chain[3].items) = 1
           /\ chain[1].items # chain[3].items
    /\ Len(returned[1].events) = 2

\* the pages of the listing in progress that were already answered
PagesAnswered ==
    IF Top.page_token = None THEN 0
    ELSE Len(served) + 1 - (CHOOSE i \in Starts : \A j \in Starts : j <= i)

\* C3 as claimed: pagination is iterative, so never more than one
\* fetch_events invocation is active, however many pages a calendar has.
C3_DepthBounded == Len(stack) <= 1

\* C3 as amended: pagination is recursive; the request for the k-th page of
\* a calendar is issued with k fetch_events invocations active, so the depth
\* of the call stack grows with the number of pages.
C3_DepthIsPageCount ==
    (pc = "fetch" /\ Top.phase = "call") => Len(stack) = PagesAnswered + 1

\* the third page of a calendar is being requested, three invocations deep
C3_Witness ==
    /\ pc = "fetch"
    /\ Top.phase = "call"
    /\ Len(stack) = 3
    /\ PagesAnswered = 2

NothingFetched ==
    cache = NoCache /\ calls = <<>> /\ lru = NoCache /\ requests = <<>> /\ printed = <<>>

\* C4 as claimed: a run of main given a selection argument, the empty string
\* included, never loads settings, lists no calendar and prints no line.
C4_SelectionBypassesFetch == selection.given => NothingFetched

\* C4 as amended: a run of main given a non-empty selection never loads
\* settings, lists no calendar and prints no line (an empty selection is
\* treated as none and takes the fetch path).
C4_NonEmptySelectionBypassesFetch ==
    (selection.given /\ selection.text # <<>>) => NothingFetched

\* a run given a line without a trailing code has ended
C4_Witness ==
    /\ pc = "done"
    /\ selection.given
    /\ Len(selection.text) > 12
    /\ opened = <<>>
    /\ NothingFetched

\* text t is a conference code: word characters in groups of 3, 4 and 3
IsCode(t) ==
    /\ Len(t) = 12
    /\ t[4] = "-"
    /\ t[9] = "-"
    /\ \A i \in {1, 2, 3, 5, 6, 7, 8, 10, 11, 12} : IsWordChar(t[i])

LastTwelve(t) == SubSeq(t, Len(t) - 11, Len(t))

EndsWithCode(t) == Len(t) >= 12 /\ IsCode(LastTwelve(t))

\* t without its last character when that is a newline
DropFinalNewline(t) ==
    IF t # <<>> /\ t[Len(t)] = "\n" THEN SubSeq(t, 1, Len(t) - 1) ELSE t

\* C7 as claimed: the URL is opened exactly when the selection ends with a
\* conference code, once, for that code; never for an empty selection or one
\* that does not end with a code.
C7_OpensIffEndsWithCode ==
    /\ pc # "done" => opened = <<>>
    /\ pc = "done" =>
          IF selection.given /\ EndsWithCode(selection.text)
          THEN opened = <<MeetPrefix \o LastTwelve(selection.text)>>
          ELSE opened = <<>>

\* C7 as amended: the URL is opened exactly when the selection, one final
\* newline set aside, ends with a conference code; then once, for that code;
\* never for an empty selection or one without such a code.
C7_OpensIffEndsWithCodeOrNewline ==
    /\ pc # "done" => opened = <<>>
    /\ pc = "done" =>
          IF selection.given /\ EndsWithCode(DropFinalNewline(selection.text))
          THEN opened = <<MeetPrefix \o LastTwelve(DropFinalNewline(selection.text))>>
          ELSE opened = <<>>

\* a line of two parts, the code after a newline, opened its meeting
C7_Witness ==
    /\ pc = "done"
    /\ selection.given
    /\ Len(selection.text) = 13
    /\ selection.text[1] = "\n"
    /\ opened = <<MeetPrefix \o CodeAbc>>

\* C8: a failed list call, on a first page or a later one, ends the run: it
\* is the last call issued, nothing is fetched after it and no line is
\* printed, not even for the calendars already fetched.
C8_FailFast ==
    \A i \in 1..Len(requests) :
        ~requests[i].ok =>
            /\ i = Len(requests)
            /\ pc = "aborted"
            /\ stack = <<>>
            /\ printed = <<>>

\* the second calendar failed on its second page after the first calendar
\* had returned an event
C8_Witness ==
    /\ pc = "aborted"
    /\ Len(returned) = 1
    /\ returned[1].events # <<>>
    /\ Len(requests) = 3
    /\ requests[3].pageToken # None
    /\ ~requests[3].ok

(***************************************************************************)
(* Properties of the aggregation and the sort (SpecSort).                  *)
(***************************************************************************)
\* the instant an event starts, in minutes of the month in UTC; an all-day
\* event starts at midnight of its date in the configured timezone
StartInstant(ev, tz) ==
    IF "dateTime" \in DOMAIN ev.start
    THEN UtcMinutes(FromIsoFormat(ev.start.dateTime))
    ELSE FromIsoFormat(ev.start.date).day * MinutesPerDay - tz.off

\* C5: when the aggregated events start at distinct instants, main prints
\* them in non-decreasing order of start instant.
C5_PrintedInStartOrder ==
    pc = "done" =>
        LET tz == TzInfo(Config["timezone"])
            n == Len(all_events)
        IN  (\A i, j \in 1..n :
                i # j => StartInstant(all_events[i], tz) # StartInstant(all_events[j], tz))
            => /\ Len(printed) = n
               /\ \A i, j \in 1..n :
                     i < j => StartInstant(all_events[i], tz) <= StartInstant(all_events[j], tz)

Aggregate == Concat([k \in 1..Len(returned) |-> returned[k].events])

IndexPermutations(n) == {p \in [1..n -> 1..n] : \A i, j \in 1..n : i # j => p[i] # p[j]}

\* C6: main fetches the calendars of calendar_id once per occurrence and in
\* list order, appends what each returns in that order, and sorts stably:
\* events with equal keys are printed in the order they were fetched.
C6_FetchOrderAndStableSort ==
    /\ Len(returned) <= Len(settingsFile.calendar_id)
    /\ \A k \in 1..Len(returned) : returned[k].calendarId = settingsFile.calendar_id[k]
    /\ \A i \in 1..Len(requests) : requests[i].calendarId = settingsFile.calendar_id[i]
    /\ pc \in {"loop", "fetch"} => all_events = Aggregate
    /\ pc = "done" /\ ~selection.given =>
          /\ Len(returned) = Len(settingsFile.calendar_id)
          /\ Len(requests) = Len(settingsFile.calendar_id)
          /\ Len(all_events) = Len(Aggregate)
          /\ \E p \in IndexPermutations(Len(Aggregate)) :
                /\ \A i \in 1..Len(Aggregate) : all_events[i] = Aggregate[p[i]]
                /\ \A i, j \in 1..Len(Aggregate) :
                      i < j =>
                         /\ ~StrLess(SortKey(all_events[j]), SortKey(all_events[i]))
                         /\ SortKey(all_events[i]) = SortKey(all_events[j]) => p[i] < p[j]
          /\ printed = [i \in 1..Len(all_events) |->
                           FormatEventLine(all_events[i], settingsFile, today)]

\* two calendars: the first returned one of the two events that share a start
\* text, the second the other and then an event with a smaller key
C6_Witness ==
    /\ pc = "done"
    /\ settingsFile.calendar_id = <<"work", "home">>
    /\ Len(returned[1].events) = 1
    /\ Len(returned[2].events) = 2
    /\ SortKey(returned[1].events[1]) = SortKey(returned[2].events[1])
    /\ returned[1].events[1] # returned[2].events[1]
    /\ StrLess(SortKey(returned[2].events[2]), SortKey(returned[2].events[1]))
    /\ all_events = <<returned[2].events[2], returned[1].events[1], returned[2].events[1]>>

(***************************************************************************)
(* SpecFormat: one event is formatted under a configuration and a clock,   *)
(* the menu shows the line, and main is run again with the line as its     *)
(* selection.                                                              *)
(***************************************************************************)
CodeMixed == <<"a", "_", "7", "-", "b", "2", "c", "d", "-", "e", "f", "9">>

\* 34 characters and then a code: 46 characters that end with the code
SummaryEndingWithCode == [i \in 1..34 |-> "x"] \o CodeAbc

\* 40 characters and then a code: the cut to 46 falls inside the code
SummaryCutInCode == [i \in 1..40 |-> "x"] \o CodeAbc

FormatSummaries ==
    {<<>>, <<"S", "t", "a", "n", "d", "u", "p">>, CodeAbc, <<"a", "\n">> \o CodeAbc,
     SummaryEndingWithCode, SummaryCutInCode}

FormatStarts ==
    {[timed |-> TRUE, day |-> d, min |-> m, off |-> o] :
        d \in 11..13, m \in {0, 1, 720, MinutesPerDay - 1}, o \in {0, 120, -180}}
    \cup {[timed |-> FALSE, day |-> d, min |-> 0, off |-> 0] : d \in 10..14}

FormatEvent(summary, st) ==
    IF st.timed THEN TimedEvent(summary, st.day, st.min, st.off, 0)
    ELSE AllDayEvent(summary, st.day)

\* the events format_event_line is tried on: without conferenceData, with a
\* conference code, with a conference id of another form
FormatEvents ==
    LET plain == {FormatEvent(summary, st) : summary \in FormatSummaries, st \in FormatStarts}
    IN  plain
        \cup {WithConference(ev, id) :
                ev \in plain, id \in {CodeAbc, CodeMixed, <<"a", "b", "c", "d", "e", "f", "g", "h", "i", "j">>}}

InitFormat ==
    /\ pc = "format"
    /\ selection = NoSelection
    /\ settingsFile \in {[timezone |-> z, calendar_id |-> <<"work">>] : z \in TimezoneNames}
    /\ options = MainOverrides
    /\ today = 12
    /\ nowMin = 9 * 60 + 30
    /\ cache = NoCache
    /\ calls = <<>>
    /\ returns = <<>>
    /\ lru = NoCache
    /\ calIdx = 0
    /\ stack = <<>>
    /\ requests = <<>>
    /\ served = <<>>
    /\ returned = <<>>
    /\ all_events \in {<<ev>> : ev \in FormatEvents}
    /\ printed = <<>>
    /\ opened = <<>>

\* print(format_event_line(ev)): config = settings(), then the line
FormatOne ==
    /\ pc = "format"
    /\ LET r == Settings(cache, settingsFile, NoOverrides)
       IN  /\ cache' = r.cache
           /\ returns' = Append(returns, r.value)
           /\ printed' = <<FormatEventLine(all_events[1], r.value, today)>>
    /\ calls' = Append(calls, [overrides |-> NoOverrides, file |-> settingsFile])
    /\ pc' = "menu"
    /\ UNCHANGED <<selection, settingsFile, options, today, nowMin, lru, calIdx,
                   stack, requests, served, returned, all_events, opened>>

\* the menu runs the program again, in a new process, with the chosen line
MenuSelect ==
    /\ pc = "menu"
    /\ selection' = Selected(printed[1])
    /\ cache' = NoCache
    /\ calls' = <<>>
    /\ returns' = <<>>
    /\ lru' = NoCache
    /\ pc' = "start"
    /\ UNCHANGED <<settingsFile, options, today, nowMin, calIdx, stack, requests,
                   served, returned, all_events, printed, opened>>

NextFormat ==
    \/ FormatOne
    \/ MenuSelect
    \/ MainSelection

SpecFormat == InitFormat /\ [][NextFormat]_vars

\* the local date an event starts on: a timed start converted to the
\* configured timezone, an all-day start as given
LocalStartDay(ev, tz) ==
    IF IsTimed(ev)
    THEN (UtcMinutes(FromIsoFormat(ev.start.dateTime)) + tz.off) \div MinutesPerDay
    ELSE FromIsoFormat(ev.start.date).day

\* C9: the day label of a line is "Today" exactly when the event starts on
\* the current local date, "Tomorrow" exactly when it starts on the next one
\* (a start at midnight included), and the local start date as YYYY-MM-DD for
\* every other event.
C9_DayLabelFollowsLocalDate ==
    printed # <<>> =>
        LET tz == TzInfo(settingsFile.timezone)
            d == LocalStartDay(all_events[1], tz)
            label == IF d = today THEN TextToday
                     ELSE IF d = today + 1 THEN TextTomorrow
                     ELSE IsoDate(d)
        IN  SubSeq(printed[1], 1, DayWidth) = PadRight(label, DayWidth)

HasCode(ev) == "conferenceData" \in DOMAIN ev /\ IsCode(ev.conferenceData.conferenceId)

\* C10: the line printed for an event whose conference identifier is a code,
\* given back as the selection, opens the meeting of that identifier; the
\* line of an event without conferenceData, whatever its summary, opens nothing.
C10_LineRoundTrip ==
    /\ pc # "done" => opened = <<>>
    /\ pc = "done" =>
          /\ HasCode(all_events[1]) =>
                opened = <<MeetPrefix \o all_events[1].conferenceData.conferenceId>>
          /\ "conferenceData" \notin DOMAIN all_events[1] => opened = <<>>

\* the line of an event whose summary was cut inside a code and whose
\* conference identifier is another code opened that identifier's meeting
C10_Witness ==
    /\ pc = "done"
    /\ all_events[1].summary = SummaryCutInCode
    /\ HasCode(all_events[1])
    /\ all_events[1].conferenceData.conferenceId = CodeMixed
    /\ opened = <<MeetPrefix \o CodeMixed>>

====
